---- MODULE Spec2Model ----
(***************************************************************************)
(* spotiscreen: the polling / render / power state machine.                *)
(*                                                                         *)
(*  - run()            src/spotiscreen.py:288-329 (src/spotiscreen/main.py *)
(*                     253-292 is the same loop with print for logging)    *)
(*  - Screen           src/spotiscreen.py:110-146                          *)
(*  - ticker()         src/spotiscreen.py:200-209 (the generator run uses) *)
(*  - ticker()         src/spotiscreen/ticker.py:5-13 (the module variant) *)
(*                                                                         *)
(* Time is counted in units of 1/UnitsPerSec seconds.  In the run loop     *)
(* the clock is kept relative to the current instant (next_tick is stored  *)
(* as next_tick - time.time()), so that the loop can run forever in a      *)
(* finite state space; the stand-alone ticker specification keeps the      *)
(* absolute clock.                                                         *)
(***************************************************************************)
EXTENDS Integers, Sequences, FiniteSets, TLC

\* ------------------------------------------------------------------ bounds
UnitsPerSec == 2
MaxProc == 1
MaxLate == 1
MaxScreens == 2
MaxTime == 12
MaxCache == 2
MaxUrls == 4
MaxSecs == 61

\* ------------------------------------------------------- program constants
IntervalSecs == 1
IdlePollSecs == 5
RetrySecs == 5

Interval == IntervalSecs * UnitsPerSec
IdleSleep == IdlePollSecs * UnitsPerSec
Backoff == RetrySecs * UnitsPerSec
TimerCap == IdleSleep + Interval + MaxProc + MaxLate

Min(a, b) == IF a < b THEN a ELSE b
Max(a, b) == IF a > b THEN a ELSE b

None == 0
Instances == 1..MaxScreens
Durations == 0..MaxProc
Lateness == 0..MaxLate

VARIABLES
    pc,                \* position of run()
    running,           \* run.running, cleared by signal_handler
    screen,            \* run.screen: None or the Screen instance bound to it
    nscreens,          \* number of Screen instances constructed so far
    is_on,             \* Screen.is_on of every instance
    last_power,        \* last power command each instance sent to the lcd
    hw_cmds,           \* commands the most recent Screen call sent
    last_op,           \* the most recent Screen call
    current_playback,  \* result of the last spot.current_playback()
    next_tick,         \* ticker.next_tick - time.time(), floor -1 (in the past)
    sleep_for,         \* argument of the ticker's pending time.sleep
    cycle,             \* Screen/builder calls made since the last query returned
    since_query,       \* time elapsed since the last query returned
    fresh,             \* no exception was caught since screen was constructed
    ticked_stopped,    \* a ticker signal was delivered with running cleared
    now_playing_state, \* run.now_playing_state of the current cycle
    scene,             \* run.scene of the current cycle
    stale_op,          \* last Screen call made on an instance after an error on it
    power_ok,          \* power commands of every instance alternated, off first
    stopped_in,        \* position of run() when signal_handler cleared running
    \* a ticker generator driven on its own, on the absolute clock
    impl,              \* which ticker(): "spotiscreen.py" or "ticker.py"
    tk_pc,             \* position of the generator and of its consumer
    tk_now,            \* time.time()
    tk_next_tick,      \* ticker.next_tick
    tk_slept,          \* lateness of the sleep since the last yield, -1: none
    tk_n,              \* number of signals (yields) so far
    tk_last,           \* time of the last signal
    tk_gap,            \* time between the last two signals, -1: fewer than two
    tk_work,           \* processing time the consumer spent before the last signal
    tk_prev_work,      \* the same for the signal before it
    tk_late,           \* wake-up lateness of the sleep before the last signal
    tk_prev_late,      \* the same for the signal before it
    tk_imm,            \* the last signal fired without a sleep
    tk_prev_imm,       \* the same for the signal before it
    tk_fast,           \* every processing so far took less than interval
    \* download_image and its lru_cache, driven on their own
    img_cache,         \* URLs the lru_cache holds, least recently used first
    dl_url,            \* URL of the last album art request, 0: none yet
    dl_fetched,        \* the last request issued a network fetch
    dl_img,            \* the last request produced an image (art present)
    dl_prev_url,       \* URL of the request before the last
    dl_prev_img,       \* the request before the last produced an image
    \* build_scene applied to one snapshot, on its own
    sc_pc,             \* "input": snapshot drawn, "built": build_scene was called
    sc_state,          \* the NowPlayingState given to build_scene
    sc_scene           \* what build_scene returned or raised

run_vars == <<pc, running, screen, nscreens, is_on, last_power, hw_cmds, last_op,
              current_playback, next_tick, sleep_for, cycle, since_query, fresh,
              ticked_stopped, now_playing_state, scene, stale_op, power_ok,
              stopped_in>>

tk_vars == <<impl, tk_pc, tk_now, tk_next_tick, tk_slept, tk_n, tk_last, tk_gap,
             tk_work, tk_prev_work, tk_late, tk_prev_late, tk_imm, tk_prev_imm, tk_fast>>

cache_vars == <<img_cache, dl_url, dl_fetched, dl_img, dl_prev_url, dl_prev_img>>

scene_vars == <<sc_pc, sc_state, sc_scene>>

lib_vars == <<cache_vars, scene_vars>>

vars == <<run_vars, tk_vars, lib_vars>>

\* what run() and its ticker leave alone, and what the stand-alone ticker does
not_run_vars == <<tk_vars, lib_vars>>
not_tk_vars == <<run_vars, lib_vars>>

NoOp == [op |-> "none", inst |-> None, was_on |-> FALSE, raised |-> FALSE]

\* ------------------------------------------------------------ Screen
\* Screen.__init__: reset, initialize_comm, set_brightness, set_orientation,
\* then is_on = True.  fail = 0: no call raises; fail = k: the k-th call raises.
InitCmds == <<"reset", "initialize_comm", "set_brightness", "set_orientation">>
InitFails == 0..Len(InitCmds)

Screen_init(fail) ==
    IF fail = 0
    THEN [is_on |-> TRUE, cmds |-> InitCmds, raised |-> FALSE]
    ELSE [is_on |-> FALSE, cmds |-> SubSeq(InitCmds, 1, fail - 1), raised |-> TRUE]

\* Screen.off: fail names the lcd call that raises ("ok": none does).
OffFails == {"ok", "screen_off", "clear"}

Screen_off_unguarded(on, fail) ==
    CASE fail = "ok" ->
           [is_on |-> FALSE, cmds |-> <<"pdl_reset", "screen_off", "clear">>,
            raised |-> FALSE]
      [] fail = "screen_off" ->
           [is_on |-> on, cmds |-> <<"pdl_reset">>, raised |-> TRUE]
      [] fail = "clear" ->
           [is_on |-> on, cmds |-> <<"pdl_reset", "screen_off">>, raised |-> TRUE]

Screen_off(on, fail) ==
    IF ~on
    THEN [is_on |-> FALSE, cmds |-> <<>>, raised |-> FALSE]
    ELSE CASE fail = "ok" ->
                [is_on |-> FALSE, cmds |-> <<"pdl_reset", "screen_off", "clear">>,
                 raised |-> FALSE]
           [] fail = "screen_off" ->
                [is_on |-> TRUE, cmds |-> <<"pdl_reset">>, raised |-> TRUE]
           [] fail = "clear" ->
                [is_on |-> TRUE, cmds |-> <<"pdl_reset", "screen_off">>,
                 raised |-> TRUE]

\* Screen.on
OnFails == {"ok", "screen_on"}

Screen_on(on, fail) ==
    IF on
    THEN [is_on |-> TRUE, cmds |-> <<>>, raised |-> FALSE]
    ELSE IF fail = "ok"
         THEN [is_on |-> TRUE, cmds |-> <<"screen_on">>, raised |-> FALSE]
         ELSE [is_on |-> FALSE, cmds |-> <<>>, raised |-> TRUE]

\* last power command after a call that sent cmds
PowerAfter(prev, cmds) ==
    IF \E i \in 1..Len(cmds) : cmds[i] \in {"screen_off", "screen_on"}
    THEN LET i == CHOOSE j \in 1..Len(cmds) :
                    /\ cmds[j] \in {"screen_off", "screen_on"}
                    /\ \A k \in (j+1)..Len(cmds) : cmds[k] \notin {"screen_off", "screen_on"}
         IN cmds[i]
    ELSE prev

\* the power commands in cmds alternate after prev, screen_off first
Alternates(prev, cmds) ==
    \A i \in 1..Len(cmds) :
        /\ cmds[i] = "screen_off" => prev # "screen_off"
        /\ cmds[i] = "screen_on" => prev = "screen_off"

\* ------------------------------------------------------------ clock
Due(t, d) == Max(t - d, 0 - 1)
Aged(t, d) == Min(t + d, TimerCap)

Elapse(d) ==
    /\ next_tick' = Due(next_tick, d)
    /\ since_query' = Aged(since_query, d)

\* ------------------------------------------------------------ snapshot
URLs == 1..MaxUrls

\* the lru_cache around download_image dropped: every request goes to the network
download_image_uncached(cache, url, net_ok) ==
    [cache |-> cache, fetched |-> TRUE, raised |-> ~net_ok]

\* @lru_cache(maxsize=...) def download_image(url): requests.get, raise_for_status,
\* Image.open.  cache: the URLs held, least recently used first, at most MaxCache
\* of them (the scaled-down maxsize).  A hit returns the held image and makes
\* the URL the most recently used; a miss calls the function, whose exception
\* is passed on and leaves nothing in the cache, and whose result is stored,
\* the least recently used entry making room when the cache is full.
download_image(cache, url, net_ok) ==
    IF \E i \in 1..Len(cache) : cache[i] = url
    THEN [cache |-> Append(SelectSeq(cache, LAMBDA u : u # url), url),
          fetched |-> FALSE, raised |-> FALSE]
    ELSE IF ~net_ok
    THEN [cache |-> cache, fetched |-> TRUE, raised |-> TRUE]
    ELSE [cache |-> Append(IF Len(cache) >= MaxCache THEN Tail(cache) ELSE cache,
                           url),
          fetched |-> TRUE, raised |-> FALSE]

\* the fields from_api_response reads: UrlPath to get the art URL, before
\* the download; the others after it, when the NowPlayingState is built
UrlPath == {"item", "album", "images", "url"}
Fields == UrlPath \cup {"artists", "artist_name", "name", "album_name",
                        "progress_ms", "duration_ms", "track_number",
                        "total_tracks"}
Responses == {"none"} \cup Fields     \* the field a response lacks, if any

\* no snapshot built since the last query
NoState == [well_formed |-> TRUE, download |-> "none", raised |-> FALSE,
            album_art_img |-> FALSE]

\* the try/except around download_image dropped
from_api_response_no_try(missing, dl_raised) ==
    IF missing \in UrlPath
    THEN [well_formed |-> FALSE, download |-> "skipped", raised |-> TRUE,
          album_art_img |-> FALSE]
    ELSE [well_formed |-> missing = "none",
          download |-> IF dl_raised THEN "failed" ELSE "ok",
          raised |-> (missing # "none" \/ dl_raised),
          album_art_img |-> (missing = "none" /\ ~dl_raised)]

\* fields read with a default instead of a subscript
from_api_response_defaults(missing, dl_raised) ==
    [well_formed |-> missing = "none",
     download |-> IF dl_raised THEN "failed" ELSE "ok",
     raised |-> FALSE,
     album_art_img |-> ~dl_raised]

\* NowPlayingState.from_api_response(api_resp), missing: the field api_resp
\* lacks, dl_raised: download_image raises.
\*     album_art_url = api_resp["item"]["album"]["images"][0]["url"]
\*     try: album_art_img = download_image(album_art_url)
\*     except Exception: album_art_img = None
\*     return cls(artist=api_resp["item"]["artists"][0]["name"], ...)
from_api_response(missing, dl_raised) ==
    IF missing \in UrlPath
    THEN [well_formed |-> FALSE, download |-> "skipped", raised |-> TRUE,
          album_art_img |-> FALSE]
    ELSE [well_formed |-> missing = "none",
          download |-> IF dl_raised THEN "failed" ELSE "ok",
          raised |-> missing # "none",
          album_art_img |-> (missing = "none" /\ ~dl_raised)]

\* no scene built since the last query
NoScene == [built |-> "no", has_img |-> FALSE]

\* ------------------------------------------------------------ scene
\* text is a sequence of characters
Digits == <<"0", "1", "2", "3", "4", "5", "6", "7", "8", "9">>

\* str(n) of a natural number
RECURSIVE Str(_)
Str(n) == IF n < 10 THEN <<Digits[n + 1]>> ELSE Append(Str(n \div 10), Digits[(n % 10) + 1])

\* f"{n:02d}": at least two characters, zeros on the left
Pad02(n) == IF n < 10 THEN <<"0">> \o Str(n) ELSE Str(n)

\* the seconds written as they come, without padding
ms_to_min_secs_unpadded(ms) ==
    LET seconds == ms \div 1000
        minutes == seconds \div 60
    IN Str(minutes) \o <<":">> \o Str(seconds % 60)

\* def ms_to_min_secs(ms): seconds = ms // 1000; minutes = seconds // 60;
\*     seconds = seconds % 60; return f"{minutes}:{seconds:02d}"
ms_to_min_secs(ms) ==
    LET seconds == ms \div 1000
        minutes == seconds \div 60
    IN Str(minutes) \o <<":">> \o Pad02(seconds % 60)

\* main.py: def seconds_to_min_secs(seconds): minutes = seconds // 60;
\*     seconds = seconds % 60; return f"{minutes}:{seconds:02d}"
seconds_to_min_secs(seconds) ==
    LET minutes == seconds \div 60
    IN Str(minutes) \o <<":">> \o Pad02(seconds % 60)

\* the snapshots build_scene is given: art or none, progress and duration
SecInputs == 0..MaxSecs \cup {599, 600, 3661}
MsInputs == {sec * 1000 + r : sec \in SecInputs, r \in {0, 999}}
DurationInputs == {0, 59999, 3661000}
States == [album_art_img : BOOLEAN, progress_ms : MsInputs, duration_ms : DurationInputs]

\* build_scene not called
NoBuild == [raised |-> FALSE, has_img |-> FALSE, bar |-> 0, elapsed |-> <<>>,
            total |-> <<>>]

\* build_scene(cfg, size, state): the image node if there is art, the
\* progress bar, filled to state.progress_percent() =
\* progress_ms / duration_ms * 100 (here rounded down), which raises
\* ZeroDivisionError when duration_ms is 0, then the two times as text.
build_scene(state) ==
    IF state.duration_ms = 0
    THEN [raised |-> TRUE, has_img |-> FALSE, bar |-> 0, elapsed |-> <<>>,
          total |-> <<>>]
    ELSE [raised |-> FALSE,
          has_img |-> state.album_art_img,
          bar |-> (state.progress_ms * 100) \div state.duration_ms,
          elapsed |-> ms_to_min_secs(state.progress_ms),
          total |-> ms_to_min_secs(state.duration_ms)]

\* main.py's build_scene: the snapshot holds progress_ms / 1000 and
\* duration_ms / 1000, and the times are seconds_to_min_secs(int(...))
build_scene_main(state) ==
    IF state.duration_ms = 0
    THEN [raised |-> TRUE, has_img |-> FALSE, bar |-> 0, elapsed |-> <<>>,
          total |-> <<>>]
    ELSE [raised |-> FALSE,
          has_img |-> state.album_art_img,
          bar |-> (state.progress_ms * 100) \div state.duration_ms,
          elapsed |-> seconds_to_min_secs(state.progress_ms \div 1000),
          total |-> seconds_to_min_secs(state.duration_ms \div 1000)]

\* ------------------------------------------------------------ idle parts
CacheIdle ==
    /\ img_cache = <<>>
    /\ dl_url = 0
    /\ dl_fetched = FALSE
    /\ dl_img = FALSE
    /\ dl_prev_url = 0
    /\ dl_prev_img = FALSE

SceneIdle ==
    /\ sc_pc = "idle"
    /\ sc_state = [album_art_img |-> FALSE, progress_ms |-> 0, duration_ms |-> 0]
    /\ sc_scene = NoBuild

LibIdle == CacheIdle /\ SceneIdle

\* ------------------------------------------------------------ run()
TickerIdle ==
    /\ impl = "spotiscreen.py"
    /\ tk_pc = "start"
    /\ tk_now = 0
    /\ tk_next_tick = 0
    /\ tk_slept = 0 - 1
    /\ tk_n = 0
    /\ tk_last = 0
    /\ tk_gap = 0 - 1
    /\ tk_work = 0
    /\ tk_prev_work = 0
    /\ tk_late = 0
    /\ tk_prev_late = 0
    /\ tk_imm = FALSE
    /\ tk_prev_imm = FALSE
    /\ tk_fast = TRUE

RunIdle ==
    /\ pc = "while"
    /\ running = TRUE
    /\ screen = None
    /\ nscreens = 0
    /\ is_on = [i \in Instances |-> FALSE]
    /\ last_power = [i \in Instances |-> "none"]
    /\ hw_cmds = <<>>
    /\ last_op = NoOp
    /\ current_playback = "unset"
    /\ next_tick = 0
    /\ sleep_for = 0
    /\ cycle = <<>>
    /\ since_query = 0
    /\ fresh = TRUE
    /\ ticked_stopped = FALSE
    /\ now_playing_state = NoState
    /\ scene = NoScene
    /\ stale_op = "none"
    /\ power_ok = TRUE
    /\ stopped_in = "none"

Init == RunIdle /\ TickerIdle /\ LibIdle

\* where run() is when the flag is first cleared: in the work of a cycle
\* (query, render, idle pause), in the ticker's sleep, or elsewhere
CyclePcs == {"query", "idle_off", "idle_sleep", "on", "snapshot", "scene", "update"}
Phase(p) ==
    IF p \in CyclePcs THEN "cycle" ELSE IF p = "tick_sleep" THEN "wait" ELSE "other"

\* signal_handler: running = False, at any point of run()
signal_handler ==
    /\ pc \notin {"done", "raised"}
    /\ UNCHANGED not_run_vars
    /\ UNCHANGED <<now_playing_state, scene, stale_op, power_ok>>
    /\ stopped_in' = IF running THEN Phase(pc) ELSE stopped_in
    /\ running' = FALSE
    /\ UNCHANGED <<pc, screen, nscreens, is_on, last_power, hw_cmds, last_op,
                   current_playback, next_tick, sleep_for, cycle, since_query,
                   fresh, ticked_stopped>>

\* while running:
WhileRunning ==
    /\ pc = "while"
    /\ UNCHANGED not_run_vars
    /\ UNCHANGED <<now_playing_state, scene, stale_op, power_ok, stopped_in>>
    /\ pc' = IF running THEN "screen_init" ELSE "cleanup"
    /\ UNCHANGED <<running, screen, nscreens, is_on, last_power, hw_cmds, last_op,
                   current_playback, next_tick, sleep_for, cycle, since_query,
                   fresh, ticked_stopped>>

\* screen = Screen(cfg)
ScreenInit ==
    /\ pc = "screen_init"
    /\ UNCHANGED not_run_vars
    /\ UNCHANGED <<now_playing_state, scene, stale_op, power_ok, stopped_in>>
    /\ \E fail \in InitFails, d \in Durations :
         LET r == Screen_init(fail) IN
         /\ hw_cmds' = r.cmds
         /\ Elapse(d)
         /\ IF r.raised
            THEN /\ pc' = "except"
                 /\ last_op' = [op |-> "init", inst |-> None, was_on |-> FALSE,
                                raised |-> TRUE]
                 /\ fresh' = FALSE
                 /\ UNCHANGED <<screen, nscreens, is_on>>
            ELSE /\ nscreens < MaxScreens
                 /\ pc' = "ticker_start"
                 /\ nscreens' = nscreens + 1
                 /\ screen' = nscreens + 1
                 /\ is_on' = [is_on EXCEPT ![nscreens + 1] = r.is_on]
                 /\ last_op' = [op |-> "init", inst |-> nscreens + 1,
                                was_on |-> FALSE, raised |-> FALSE]
                 /\ fresh' = TRUE
    /\ UNCHANGED <<running, last_power, current_playback, sleep_for, cycle,
                   ticked_stopped>>

\* for _ in ticker(1): the generator runs to its first yield
\*     next_tick = time.time() + interval; yield
TickerStart ==
    /\ pc = "ticker_start"
    /\ UNCHANGED not_run_vars
    /\ UNCHANGED <<now_playing_state, scene, stale_op, power_ok, stopped_in>>
    /\ next_tick' = Interval
    /\ pc' = "check"
    /\ ticked_stopped' = (ticked_stopped \/ ~running)
    /\ UNCHANGED <<running, screen, nscreens, is_on, last_power, hw_cmds, last_op,
                   current_playback, sleep_for, cycle, since_query, fresh>>

CheckRunning_no_break ==
    /\ pc = "check"
    /\ UNCHANGED not_run_vars
    /\ UNCHANGED <<now_playing_state, scene, stale_op, power_ok, stopped_in>>
    /\ pc' = "query"
    /\ UNCHANGED <<running, screen, nscreens, is_on, last_power, hw_cmds, last_op,
                   current_playback, next_tick, sleep_for, cycle, since_query,
                   fresh, ticked_stopped>>

\* if not running: break
CheckRunning ==
    /\ pc = "check"
    /\ UNCHANGED not_run_vars
    /\ UNCHANGED <<now_playing_state, scene, stale_op, power_ok, stopped_in>>
    /\ pc' = IF running THEN "query" ELSE "while"
    /\ UNCHANGED <<running, screen, nscreens, is_on, last_power, hw_cmds, last_op,
                   current_playback, next_tick, sleep_for, cycle, since_query,
                   fresh, ticked_stopped>>

\* current_playback = spot.current_playback()
CurrentPlayback ==
    /\ pc = "query"
    /\ UNCHANGED not_run_vars
    /\ UNCHANGED <<stale_op, power_ok, stopped_in>>
    /\ \E res \in {"None", "payload", "raise"}, d \in Durations :
         /\ next_tick' = Due(next_tick, d)
         /\ IF res = "raise"
            THEN /\ pc' = "except"
                 /\ fresh' = FALSE
                 /\ since_query' = Aged(since_query, d)
                 /\ UNCHANGED <<current_playback, cycle, now_playing_state, scene>>
            ELSE /\ pc' = IF res = "None" THEN "idle_off" ELSE "on"
                 /\ current_playback' = res
                 /\ since_query' = 0
                 /\ cycle' = <<>>
                 /\ now_playing_state' = NoState
                 /\ scene' = NoScene
                 /\ UNCHANGED fresh
    /\ UNCHANGED <<running, screen, nscreens, is_on, last_power, hw_cmds, last_op,
                   sleep_for, ticked_stopped>>

\* screen.off() of the idle path
IdleOff ==
    /\ pc = "idle_off"
    /\ UNCHANGED not_run_vars
    /\ UNCHANGED <<now_playing_state, scene, stopped_in>>
    /\ stale_op' = IF fresh THEN stale_op ELSE "off"
    /\ \E fail \in OffFails, d \in Durations :
         LET r == Screen_off(is_on[screen], fail) IN
         /\ is_on' = [is_on EXCEPT ![screen] = r.is_on]
         /\ hw_cmds' = r.cmds
         /\ power_ok' = (power_ok /\ Alternates(last_power[screen], r.cmds))
         /\ last_power' = [last_power EXCEPT
                             ![screen] = PowerAfter(last_power[screen], r.cmds)]
         /\ last_op' = [op |-> "off", inst |-> screen, was_on |-> is_on[screen],
                        raised |-> r.raised]
         /\ Elapse(d)
         /\ pc' = IF r.raised THEN "except" ELSE "idle_sleep"
         /\ fresh' = (fresh /\ ~r.raised)
    /\ cycle' = Append(cycle, "off")
    /\ UNCHANGED <<running, screen, nscreens, current_playback, sleep_for,
                   ticked_stopped>>

IdleSleepStep_no_sleep ==
    /\ pc = "idle_sleep"
    /\ UNCHANGED not_run_vars
    /\ UNCHANGED <<now_playing_state, scene, stale_op, power_ok, stopped_in>>
    /\ pc' = "tick"
    /\ UNCHANGED <<running, screen, nscreens, is_on, last_power, hw_cmds, last_op,
                   current_playback, next_tick, sleep_for, cycle, since_query,
                   fresh, ticked_stopped>>

\* time.sleep(5); continue
IdleSleepStep ==
    /\ pc = "idle_sleep"
    /\ UNCHANGED not_run_vars
    /\ UNCHANGED <<now_playing_state, scene, stale_op, power_ok, stopped_in>>
    /\ \E late \in Lateness : Elapse(IdleSleep + late)
    /\ pc' = "tick"
    /\ UNCHANGED <<running, screen, nscreens, is_on, last_power, hw_cmds, last_op,
                   current_playback, sleep_for, cycle, fresh, ticked_stopped>>

ScreenOn_skipped ==
    /\ pc = "on"
    /\ UNCHANGED not_run_vars
    /\ UNCHANGED <<now_playing_state, scene, stale_op, power_ok, stopped_in>>
    /\ pc' = "snapshot"
    /\ cycle' = Append(cycle, "on")
    /\ UNCHANGED <<running, screen, nscreens, is_on, last_power, hw_cmds, last_op,
                   current_playback, next_tick, sleep_for, since_query, fresh,
                   ticked_stopped>>

\* screen.on()
ScreenOn ==
    /\ pc = "on"
    /\ UNCHANGED not_run_vars
    /\ UNCHANGED <<now_playing_state, scene, stopped_in>>
    /\ stale_op' = IF fresh THEN stale_op ELSE "on"
    /\ \E fail \in OnFails, d \in Durations :
         LET r == Screen_on(is_on[screen], fail) IN
         /\ is_on' = [is_on EXCEPT ![screen] = r.is_on]
         /\ hw_cmds' = r.cmds
         /\ power_ok' = (power_ok /\ Alternates(last_power[screen], r.cmds))
         /\ last_power' = [last_power EXCEPT
                             ![screen] = PowerAfter(last_power[screen], r.cmds)]
         /\ last_op' = [op |-> "on", inst |-> screen, was_on |-> is_on[screen],
                        raised |-> r.raised]
         /\ Elapse(d)
         /\ pc' = IF r.raised THEN "except" ELSE "snapshot"
         /\ fresh' = (fresh /\ ~r.raised)
    /\ cycle' = Append(cycle, "on")
    /\ UNCHANGED <<running, screen, nscreens, current_playback, sleep_for,
                   ticked_stopped>>

\* now_playing_state = NowPlayingState.from_api_response(current_playback)
\* whether download_image raises is for its cache and the network to decide
FromApiResponse ==
    /\ pc = "snapshot"
    /\ UNCHANGED not_run_vars
    /\ UNCHANGED <<scene, stale_op, power_ok, stopped_in>>
    /\ \E missing \in Responses, dl_raised \in BOOLEAN, d \in Durations :
         LET r == from_api_response(missing, dl_raised) IN
         /\ Elapse(d)
         /\ now_playing_state' = r
         /\ pc' = IF r.raised THEN "except" ELSE "scene"
         /\ fresh' = (fresh /\ ~r.raised)
    /\ cycle' = Append(cycle, "snapshot")
    /\ UNCHANGED <<running, screen, nscreens, is_on, last_power, hw_cmds, last_op,
                   current_playback, sleep_for, ticked_stopped>>

\* scene = build_scene(cfg, screen.size(), now_playing_state)
\*     if state.album_art_img: scene.add(Img(...))
\* screen.size(), the font loading and the progress bar may raise
BuildScene ==
    /\ pc = "scene"
    /\ UNCHANGED not_run_vars
    /\ UNCHANGED <<now_playing_state, stale_op, power_ok, stopped_in>>
    /\ \E ok \in BOOLEAN, d \in Durations :
         /\ Elapse(d)
         /\ scene' = IF ok
                      THEN [built |-> "yes",
                            has_img |-> now_playing_state.album_art_img]
                      ELSE [built |-> "raised", has_img |-> FALSE]
         /\ pc' = IF ok THEN "update" ELSE "except"
         /\ fresh' = (fresh /\ ok)
    /\ cycle' = Append(cycle, "scene")
    /\ UNCHANGED <<running, screen, nscreens, is_on, last_power, hw_cmds, last_op,
                   current_playback, sleep_for, ticked_stopped>>

\* screen.update(scene)
ScreenUpdate ==
    /\ pc = "update"
    /\ UNCHANGED not_run_vars
    /\ UNCHANGED <<now_playing_state, scene, power_ok, stopped_in>>
    /\ stale_op' = IF fresh THEN stale_op ELSE "update"
    /\ \E ok \in BOOLEAN, d \in Durations :
         /\ Elapse(d)
         /\ hw_cmds' = IF ok THEN <<"paint">> ELSE <<>>
         /\ last_op' = [op |-> "update", inst |-> screen, was_on |-> is_on[screen],
                        raised |-> ~ok]
         /\ pc' = IF ok THEN "tick" ELSE "except"
         /\ fresh' = (fresh /\ ok)
    /\ cycle' = Append(cycle, "update")
    /\ UNCHANGED <<running, screen, nscreens, is_on, last_power, current_playback,
                   sleep_for, ticked_stopped>>

\* a ticker that tests the flag before it waits
TickerResume_checks_flag ==
    /\ pc = "tick"
    /\ UNCHANGED not_run_vars
    /\ UNCHANGED <<now_playing_state, scene, stale_op, power_ok, stopped_in>>
    /\ IF ~running
       THEN /\ pc' = "while"
            /\ UNCHANGED <<next_tick, sleep_for, ticked_stopped>>
       ELSE IF next_tick < 0
       THEN /\ next_tick' = Interval
            /\ pc' = "check"
            /\ ticked_stopped' = (ticked_stopped \/ ~running)
            /\ UNCHANGED sleep_for
       ELSE /\ sleep_for' = next_tick
            /\ pc' = "tick_sleep"
            /\ UNCHANGED <<next_tick, ticked_stopped>>
    /\ UNCHANGED <<running, screen, nscreens, is_on, last_power, hw_cmds, last_op,
                   current_playback, cycle, since_query, fresh>>

\* a ticker that sleeps a full interval whenever it is resumed
TickerResume_full_wait ==
    /\ pc = "tick"
    /\ UNCHANGED not_run_vars
    /\ UNCHANGED <<now_playing_state, scene, stale_op, power_ok, stopped_in>>
    /\ sleep_for' = Interval
    /\ pc' = "tick_sleep"
    /\ UNCHANGED <<next_tick, ticked_stopped>>
    /\ UNCHANGED <<running, screen, nscreens, is_on, last_power, hw_cmds, last_op,
                   current_playback, cycle, since_query, fresh>>

\* the generator resumes after its yield:
\*     now = time.time()
\*     if now > next_tick: next_tick = now + interval        (and yields)
\*     else: time.sleep(next_tick - now) ...
TickerResume ==
    /\ pc = "tick"
    /\ UNCHANGED not_run_vars
    /\ UNCHANGED <<now_playing_state, scene, stale_op, power_ok, stopped_in>>
    /\ IF next_tick < 0
       THEN /\ next_tick' = Interval
            /\ pc' = "check"
            /\ ticked_stopped' = (ticked_stopped \/ ~running)
            /\ UNCHANGED sleep_for
       ELSE /\ sleep_for' = next_tick
            /\ pc' = "tick_sleep"
            /\ UNCHANGED <<next_tick, ticked_stopped>>
    /\ UNCHANGED <<running, screen, nscreens, is_on, last_power, hw_cmds, last_op,
                   current_playback, cycle, since_query, fresh>>

\*     ... time.sleep(next_tick - now); next_tick += interval    (and yields)
TickerSleep ==
    /\ pc = "tick_sleep"
    /\ UNCHANGED not_run_vars
    /\ UNCHANGED <<now_playing_state, scene, stale_op, power_ok, stopped_in>>
    /\ \E late \in Lateness :
         /\ next_tick' = Due(next_tick - (sleep_for + late) + Interval, 0)
         /\ since_query' = Aged(since_query, sleep_for + late)
    /\ sleep_for' = 0
    /\ pc' = "check"
    /\ ticked_stopped' = (ticked_stopped \/ ~running)
    /\ UNCHANGED <<running, screen, nscreens, is_on, last_power, hw_cmds, last_op,
                   current_playback, cycle, fresh>>

Except_always_backoff ==
    /\ pc = "except"
    /\ UNCHANGED not_run_vars
    /\ UNCHANGED <<now_playing_state, scene, stale_op, power_ok, stopped_in>>
    /\ pc' = "backoff"
    /\ UNCHANGED <<running, screen, nscreens, is_on, last_power, hw_cmds, last_op,
                   current_playback, next_tick, sleep_for, cycle, since_query,
                   fresh, ticked_stopped>>

Except_no_backoff ==
    /\ pc = "except"
    /\ UNCHANGED not_run_vars
    /\ UNCHANGED <<now_playing_state, scene, stale_op, power_ok, stopped_in>>
    /\ pc' = "while"
    /\ UNCHANGED <<running, screen, nscreens, is_on, last_power, hw_cmds, last_op,
                   current_playback, next_tick, sleep_for, cycle, since_query,
                   fresh, ticked_stopped>>

\* except Exception as e: log; if running: ...
Except ==
    /\ pc = "except"
    /\ UNCHANGED not_run_vars
    /\ UNCHANGED <<now_playing_state, scene, stale_op, power_ok, stopped_in>>
    /\ pc' = IF running THEN "backoff" ELSE "while"
    /\ UNCHANGED <<running, screen, nscreens, is_on, last_power, hw_cmds, last_op,
                   current_playback, next_tick, sleep_for, cycle, since_query,
                   fresh, ticked_stopped>>

BackoffSleep_same_screen ==
    /\ pc = "backoff"
    /\ UNCHANGED not_run_vars
    /\ UNCHANGED <<now_playing_state, scene, stale_op, power_ok, stopped_in>>
    /\ \E late \in Lateness : Elapse(Backoff + late)
    /\ pc' = IF screen = None THEN "while" ELSE "ticker_start"
    /\ UNCHANGED <<running, screen, nscreens, is_on, last_power, hw_cmds, last_op,
                   current_playback, sleep_for, cycle, fresh, ticked_stopped>>

BackoffSleep_gives_up ==
    /\ pc = "backoff"
    /\ UNCHANGED not_run_vars
    /\ UNCHANGED <<now_playing_state, scene, stale_op, power_ok, stopped_in>>
    /\ \E late \in Lateness : Elapse(Backoff + late)
    /\ pc' = IF nscreens >= 2 THEN "cleanup" ELSE "while"
    /\ UNCHANGED <<running, screen, nscreens, is_on, last_power, hw_cmds, last_op,
                   current_playback, sleep_for, cycle, fresh, ticked_stopped>>

\* ... time.sleep(5)
BackoffSleep ==
    /\ pc = "backoff"
    /\ UNCHANGED not_run_vars
    /\ UNCHANGED <<now_playing_state, scene, stale_op, power_ok, stopped_in>>
    /\ \E late \in Lateness : Elapse(Backoff + late)
    /\ pc' = "while"
    /\ UNCHANGED <<running, screen, nscreens, is_on, last_power, hw_cmds, last_op,
                   current_playback, sleep_for, cycle, fresh, ticked_stopped>>

CleanUp_no_off ==
    /\ pc = "cleanup"
    /\ UNCHANGED not_run_vars
    /\ UNCHANGED <<now_playing_state, scene, stale_op, power_ok, stopped_in>>
    /\ pc' = "done"
    /\ UNCHANGED <<running, screen, nscreens, is_on, last_power, hw_cmds, last_op,
                   current_playback, next_tick, sleep_for, cycle, since_query,
                   fresh, ticked_stopped>>

\* if screen: screen.off()       (outside the try)
CleanUp ==
    /\ pc = "cleanup"
    /\ UNCHANGED not_run_vars
    /\ UNCHANGED <<now_playing_state, scene, stopped_in>>
    /\ IF screen = None
       THEN /\ pc' = "done"
            /\ UNCHANGED <<is_on, hw_cmds, last_power, last_op, stale_op, power_ok>>
       ELSE \E fail \in OffFails :
              LET r == Screen_off(is_on[screen], fail) IN
              /\ is_on' = [is_on EXCEPT ![screen] = r.is_on]
              /\ hw_cmds' = r.cmds
              /\ power_ok' = (power_ok /\ Alternates(last_power[screen], r.cmds))
              /\ stale_op' = IF fresh THEN stale_op ELSE "off"
              /\ last_power' = [last_power EXCEPT
                                  ![screen] = PowerAfter(last_power[screen], r.cmds)]
              /\ last_op' = [op |-> "off", inst |-> screen,
                             was_on |-> is_on[screen], raised |-> r.raised]
              /\ pc' = IF r.raised THEN "raised" ELSE "done"
    /\ UNCHANGED <<running, screen, nscreens, current_playback, next_tick,
                   sleep_for, cycle, since_query, fresh, ticked_stopped>>

Step ==
    \/ WhileRunning
    \/ ScreenInit
    \/ TickerStart
    \/ CheckRunning
    \/ CurrentPlayback
    \/ IdleOff
    \/ IdleSleepStep
    \/ ScreenOn
    \/ FromApiResponse
    \/ BuildScene
    \/ ScreenUpdate
    \/ TickerResume
    \/ TickerSleep
    \/ Except
    \/ BackoffSleep
    \/ CleanUp

Next == signal_handler \/ Step

Spec == Init /\ [][Next]_vars

\* every collaborator call and every sleep returns: run() keeps taking steps
LiveSpec == Spec /\ WF_vars(Step)

\* ------------------------------------------------------------ ticker()
\* A ticker generator and the consumer that pulls its signals.  The consumer
\* spends 0..MaxWork between a signal and the next request; a timed sleep
\* never returns early and wakes up to MaxLate late.
MaxWork == 2 * Interval + 1
Works == 0..MaxWork

\* the generator yields at tk_now'
Yield(imm, late) ==
    /\ tk_pc' = "yielded"
    /\ tk_n' = tk_n + 1
    /\ tk_last' = tk_now'
    /\ tk_gap' = IF tk_n = 0 THEN 0 - 1 ELSE tk_now' - tk_last
    /\ tk_imm' = imm
    /\ tk_prev_imm' = tk_imm
    /\ tk_late' = late
    /\ tk_prev_late' = tk_late
    /\ tk_slept' = 0 - 1

\* the loop body of the consumer, between two next() calls
Work ==
    /\ tk_pc = "yielded"
    /\ \E d \in Works :
         /\ tk_now + d <= MaxTime
         /\ tk_now' = tk_now + d
         /\ tk_work' = d
         /\ tk_prev_work' = tk_work
         /\ tk_fast' = (tk_fast /\ d < Interval)
    /\ tk_pc' = "resume"
    /\ UNCHANGED <<impl, tk_next_tick, tk_slept, tk_n, tk_last, tk_gap, tk_late,
                   tk_prev_late, tk_imm, tk_prev_imm>>
    /\ UNCHANGED not_tk_vars

\* src/spotiscreen.py ticker: next_tick = time.time() + interval; yield
ticker_start ==
    /\ impl = "spotiscreen.py"
    /\ tk_pc = "start"
    /\ UNCHANGED <<impl, tk_now, tk_work, tk_prev_work, tk_fast>>
    /\ tk_next_tick' = tk_now + Interval
    /\ Yield(TRUE, 0)
    /\ UNCHANGED not_tk_vars

ticker_resume_catch_up ==
    /\ impl = "spotiscreen.py"
    /\ tk_pc = "resume"
    /\ UNCHANGED <<impl, tk_now, tk_work, tk_prev_work, tk_fast>>
    /\ IF tk_now > tk_next_tick
       THEN /\ tk_next_tick' = tk_next_tick + Interval
            /\ Yield(TRUE, 0)
       ELSE /\ tk_pc' = "sleeping"
            /\ UNCHANGED <<tk_next_tick, tk_slept, tk_n, tk_last, tk_gap, tk_late,
                           tk_prev_late, tk_imm, tk_prev_imm>>
    /\ UNCHANGED not_tk_vars

\*     now = time.time()
\*     if now > next_tick: next_tick = now + interval      (and yields)
\*     else: ...
ticker_resume ==
    /\ impl = "spotiscreen.py"
    /\ tk_pc = "resume"
    /\ UNCHANGED <<impl, tk_now, tk_work, tk_prev_work, tk_fast>>
    /\ IF tk_now > tk_next_tick
       THEN /\ tk_next_tick' = tk_now + Interval
            /\ Yield(TRUE, 0)
       ELSE /\ tk_pc' = "sleeping"
            /\ UNCHANGED <<tk_next_tick, tk_slept, tk_n, tk_last, tk_gap, tk_late,
                           tk_prev_late, tk_imm, tk_prev_imm>>
    /\ UNCHANGED not_tk_vars

\*     else: time.sleep(next_tick - now); next_tick += interval   (and yields)
ticker_sleep ==
    /\ impl = "spotiscreen.py"
    /\ tk_pc = "sleeping"
    /\ \E late \in Lateness :
         /\ tk_now + (tk_next_tick - tk_now) + late <= MaxTime
         /\ tk_now' = tk_now + (tk_next_tick - tk_now) + late
         /\ Yield(FALSE, late)
    /\ tk_next_tick' = tk_next_tick + Interval
    /\ UNCHANGED <<impl, tk_work, tk_prev_work, tk_fast>>
    /\ UNCHANGED not_tk_vars

\* src/spotiscreen/ticker.py ticker: next_tick = time.time()
ticker_py_start ==
    /\ impl = "ticker.py"
    /\ tk_pc = "start"
    /\ tk_next_tick' = tk_now
    /\ tk_pc' = "loop"
    /\ UNCHANGED <<impl, tk_now, tk_slept, tk_n, tk_last, tk_gap, tk_work, tk_prev_work,
                   tk_late, tk_prev_late, tk_imm, tk_prev_imm, tk_fast>>
    /\ UNCHANGED not_tk_vars

ticker_py_loop_no_max ==
    /\ impl = "ticker.py"
    /\ tk_pc \in {"loop", "resume"}
    /\ UNCHANGED <<impl, tk_now, tk_work, tk_prev_work, tk_fast>>
    /\ IF tk_now >= tk_next_tick
       THEN /\ tk_next_tick' = tk_next_tick + Interval
            /\ Yield(tk_slept < 0, Max(tk_slept, 0))
       ELSE /\ tk_pc' = "sleeping"
            /\ UNCHANGED <<tk_next_tick, tk_slept, tk_n, tk_last, tk_gap, tk_late,
                           tk_prev_late, tk_imm, tk_prev_imm>>
    /\ UNCHANGED not_tk_vars

\*     now = time.time()
\*     if now >= next_tick:
\*         next_tick = max(next_tick + interval, now + interval); yield
\*     else: ...
ticker_py_loop ==
    /\ impl = "ticker.py"
    /\ tk_pc \in {"loop", "resume"}
    /\ UNCHANGED <<impl, tk_now, tk_work, tk_prev_work, tk_fast>>
    /\ IF tk_now >= tk_next_tick
       THEN /\ tk_next_tick' = Max(tk_next_tick + Interval, tk_now + Interval)
            /\ Yield(tk_slept < 0, Max(tk_slept, 0))
       ELSE /\ tk_pc' = "sleeping"
            /\ UNCHANGED <<tk_next_tick, tk_slept, tk_n, tk_last, tk_gap, tk_late,
                           tk_prev_late, tk_imm, tk_prev_imm>>
    /\ UNCHANGED not_tk_vars

\*     else: time.sleep(next_tick - now)        (and loops)
ticker_py_sleep ==
    /\ impl = "ticker.py"
    /\ tk_pc = "sleeping"
    /\ \E late \in Lateness :
         /\ tk_now + (tk_next_tick - tk_now) + late <= MaxTime
         /\ tk_now' = tk_now + (tk_next_tick - tk_now) + late
         /\ tk_slept' = late
    /\ tk_pc' = "loop"
    /\ UNCHANGED <<impl, tk_next_tick, tk_n, tk_last, tk_gap, tk_work, tk_prev_work,
                   tk_late, tk_prev_late, tk_imm, tk_prev_imm, tk_fast>>
    /\ UNCHANGED not_tk_vars

TickerInit ==
    /\ RunIdle
    /\ LibIdle
    /\ impl \in {"spotiscreen.py", "ticker.py"}
    /\ tk_pc = "start"
    /\ tk_now = 0
    /\ tk_next_tick = 0
    /\ tk_slept = 0 - 1
    /\ tk_n = 0
    /\ tk_last = 0
    /\ tk_gap = 0 - 1
    /\ tk_work = 0
    /\ tk_prev_work = 0
    /\ tk_late = 0
    /\ tk_prev_late = 0
    /\ tk_imm = FALSE
    /\ tk_prev_imm = FALSE
    /\ tk_fast = TRUE

TickerNext ==
    \/ Work
    \/ ticker_start
    \/ ticker_resume
    \/ ticker_sleep
    \/ ticker_py_start
    \/ ticker_py_loop
    \/ ticker_py_sleep

TickerSpec == TickerInit /\ [][TickerNext]_vars

\* ------------------------------------------------------------ album art
\* The album art part of from_api_response, called snapshot after snapshot
\* with any URL and any outcome of the network fetch.
AlbumArt ==
    /\ \E url \in URLs, net_ok \in BOOLEAN :
         LET d == download_image(img_cache, url, net_ok)
             r == from_api_response("none", d.raised)
         IN /\ img_cache' = d.cache
            /\ dl_url' = url
            /\ dl_fetched' = d.fetched
            /\ dl_img' = r.album_art_img
    /\ dl_prev_url' = dl_url
    /\ dl_prev_img' = dl_img
    /\ UNCHANGED <<run_vars, tk_vars, scene_vars>>

CacheNext == AlbumArt

CacheSpec == Init /\ [][CacheNext]_vars

\* ------------------------------------------------------------ build_scene
\* build_scene applied once to any snapshot, by either program
SceneReady ==
    /\ RunIdle
    /\ TickerIdle
    /\ CacheIdle
    /\ sc_pc = "ready"
    /\ sc_state \in States
    /\ sc_scene = NoBuild

BuildSceneOf ==
    /\ sc_pc = "ready"
    /\ sc_scene' = build_scene(sc_state)
    /\ sc_pc' = "built"
    /\ UNCHANGED <<sc_state, run_vars, tk_vars, cache_vars>>

BuildSceneOfMain ==
    /\ sc_pc = "ready"
    /\ sc_scene' = build_scene_main(sc_state)
    /\ sc_pc' = "built_main"
    /\ UNCHANGED <<sc_state, run_vars, tk_vars, cache_vars>>

\* build_scene has been called
Built == sc_pc \in {"built", "built_main"}

SceneNext == BuildSceneOf \/ BuildSceneOfMain

SceneSpec == SceneReady /\ [][SceneNext]_vars

TypeOK ==
    /\ running \in BOOLEAN
    /\ screen \in {None} \cup Instances
    /\ nscreens \in 0..MaxScreens
    /\ next_tick \in (0 - 1)..Interval
    /\ since_query \in 0..TimerCap
    /\ Len(cycle) <= 4

\* ------------------------------------------------------------ properties
Terminated == pc \in {"done", "raised"}
ActiveOrder == <<"on", "snapshot", "scene", "update">>
IsPrefix(s, t) == Len(s) <= Len(t) /\ SubSeq(t, 1, Len(s)) = s

\* C1: while running is set, a caught exception is followed by the 5 second
\* backoff, and the loop then restarts from Screen(cfg): from the moment an
\* exception is raised until a new Screen is constructed, run() is only in
\* the handler, the backoff, the loop test or the constructor, so no playback
\* query is issued on the old Screen.
C1_RetryFromFreshScreen ==
    [][ /\ (pc = "except" /\ running /\ pc' # pc => pc' = "backoff")
        /\ (pc = "backoff" /\ pc' # pc =>
                /\ pc' = "while"
                /\ since_query' >= Min(since_query + Backoff, TimerCap))
        /\ (pc = "while" /\ running /\ pc' # pc => pc' = "screen_init")
        /\ (~fresh' => pc' \in {"except", "backoff", "while", "screen_init",
                                "cleanup", "done", "raised"})
        /\ (pc' = "query" => fresh' /\ screen' # None)
      ]_vars

\* a paint raised, the backoff was slept and a second Screen was constructed
C1_Witness ==
    /\ running
    /\ pc = "ticker_start"
    /\ nscreens = 2
    /\ fresh
    /\ cycle = ActiveOrder
    /\ last_op.op = "init"
    /\ since_query >= Backoff

\* C2: as long as signal_handler has not cleared running, run() has neither
\* returned nor let an exception escape, whatever the collaborators raise.
C2_RunsUntilSignal == running => ~Terminated

\* still running after several caught failures
C2_Witness == running /\ nscreens = MaxScreens /\ pc = "backoff" /\ ~fresh

\* C3: once a ticker signal has been delivered with running cleared, no
\* playback query is started any more (run() is at the break, the loop test
\* or the clean-up), and once running is cleared run() terminates; it ends
\* other than by returning only when the final screen.off() itself raises.
C3_ShutdownAtNextTick ==
    /\ [](ticked_stopped => pc \in {"check", "while", "cleanup", "done", "raised"})
    /\ [](pc = "raised" => ~running /\ last_op.op = "off" /\ last_op.raised)
    /\ (~running ~> Terminated)

\* run() returned after a ticker signal that followed the flag being cleared
C3_Witness == ticked_stopped /\ pc = "done" /\ screen # None

\* C4 (amended): when run() returns and a Screen was constructed, the last
\* Screen call is off() on the instance bound to screen and that instance is
\* off; when run() ends by an exception, it is the final off() that raised.
C4_OffBeforeReturn ==
    /\ (pc = "done" /\ screen # None =>
            /\ last_op.op = "off"
            /\ last_op.inst = screen
            /\ ~last_op.raised
            /\ ~is_on[screen])
    /\ (pc = "raised" => last_op.op = "off" /\ last_op.inst = screen /\ last_op.raised)

\* run() returned with a Screen that was on when the loop was left
C4_Witness == pc = "done" /\ screen # None /\ last_op.op = "off" /\ last_op.was_on

\* C4 as stated: every execution that ends after the signal leaves the
\* display controller off.
C4_Original ==
    Terminated /\ screen # None => last_op.op = "off" /\ ~is_on[screen]

\* C5: after a query returned None, off() is the only Screen or builder call
\* of the cycle, it is called once, and at least 5 seconds pass before the
\* next playback query is issued.
C5_IdlePath ==
    current_playback = "None" =>
        /\ (pc = "idle_off" => cycle = <<>>)
        /\ (pc # "idle_off" => cycle = <<"off">>)
        /\ (pc = "query" => since_query >= IdleSleep)

\* the query that follows an idle cycle is about to be issued
C5_Witness ==
    /\ current_playback = "None"
    /\ pc = "query"
    /\ nscreens = 1
    /\ fresh
    /\ last_op.op = "off"
    /\ ~last_op.raised

\* C6: after a query returned a payload the calls of the cycle are on(),
\* from_api_response, build_scene, update() in that order, and update() is
\* only called on a Screen whose is_on is true.
C6_ActivePath ==
    /\ (current_playback = "payload" => IsPrefix(cycle, ActiveOrder))
    /\ (current_playback = "payload" /\ pc = "on" => cycle = <<>>)
    /\ (pc = "snapshot" => cycle = SubSeq(ActiveOrder, 1, 1))
    /\ (pc = "scene" => cycle = SubSeq(ActiveOrder, 1, 2))
    /\ (pc = "update" => cycle = SubSeq(ActiveOrder, 1, 3) /\ is_on[screen])
    /\ (pc \in {"tick", "tick_sleep"} /\ current_playback = "payload" =>
            cycle = ActiveOrder)
    /\ (last_op.op = "update" => last_op.was_on /\ is_on[last_op.inst])

\* update() is about to paint on a Screen that on() has just woken up
C6_Witness ==
    /\ pc = "update"
    /\ last_op.op = "on"
    /\ ~last_op.was_on
    /\ hw_cmds = <<"screen_on">>

\* C7: off() on an off Screen and on() on an on Screen send nothing and
\* leave is_on as it was; off() on an on Screen sends pdl.reset, screen_off,
\* clear and clears is_on; on() on an off Screen sends screen_on and sets
\* is_on; a freshly constructed Screen is on.
C7_OnOffIdempotent ==
    /\ (last_op.op = "off" /\ ~last_op.was_on =>
            hw_cmds = <<>> /\ ~last_op.raised /\ ~is_on[last_op.inst])
    /\ (last_op.op = "on" /\ last_op.was_on =>
            hw_cmds = <<>> /\ ~last_op.raised /\ is_on[last_op.inst])
    /\ (last_op.op = "off" /\ last_op.was_on /\ ~last_op.raised =>
            /\ hw_cmds = <<"pdl_reset", "screen_off", "clear">>
            /\ ~is_on[last_op.inst]
            /\ last_power[last_op.inst] = "screen_off")
    /\ (last_op.op = "on" /\ ~last_op.was_on /\ ~last_op.raised =>
            /\ hw_cmds = <<"screen_on">>
            /\ is_on[last_op.inst]
            /\ last_power[last_op.inst] = "screen_on")
    /\ (last_op.op = "init" /\ ~last_op.raised =>
            is_on[last_op.inst] /\ last_power[last_op.inst] = "none")

\* a second idle cycle called off() on a Screen that was already off
C7_Witness ==
    /\ last_op.op = "off"
    /\ ~last_op.was_on
    /\ pc = "idle_sleep"
    /\ last_power[last_op.inst] = "screen_off"

\* C8 (amended): two successive signals of ticker.py's ticker are at least
\* interval apart; two successive signals of the generator in spotiscreen.py
\* are at least interval minus the wake-up lateness of the earlier one apart.
C8_Spacing ==
    tk_n >= 2 /\ tk_pc = "yielded" =>
        /\ (impl = "ticker.py" => tk_gap >= Interval)
        /\ (impl = "spotiscreen.py" => tk_gap >= Interval - tk_prev_late)

\* a signal woke late and the next one, on schedule, came less than interval later
C8_Witness ==
    /\ impl = "spotiscreen.py"
    /\ tk_pc = "yielded"
    /\ tk_n >= 3
    /\ tk_prev_late = MaxLate
    /\ tk_late = 0
    /\ tk_gap = Interval - MaxLate

\* C8 as stated: any two successive signals are at least interval apart.
C8_Original == tk_n >= 2 /\ tk_pc = "yielded" => tk_gap >= Interval

\* C9 as stated: while every processing took less than interval, the n-th
\* signal fires at the start time plus n * interval plus the wake-up lateness
\* of its own sleep only (the ticker starts at time 0 and its first signal is
\* number 0).
C9_NoDrift ==
    tk_pc = "yielded" /\ tk_fast => tk_last = (tk_n - 1) * Interval + tk_late

\* C10: after a processing longer than interval the signal fires without a
\* sleep, at once, and next_tick is re-anchored to that instant plus interval;
\* the signal after it fires interval later (plus the lateness of its sleep)
\* when its own processing fits in the interval, and fires without a sleep
\* only if its own processing took a whole interval again.
C10_OverrunCorrection ==
    tk_pc = "yielded" =>
        /\ (tk_n >= 2 /\ tk_work > Interval =>
                /\ tk_imm
                /\ tk_gap = tk_work
                /\ tk_next_tick = tk_last + Interval)
        /\ (tk_n >= 3 /\ tk_prev_work > Interval /\ tk_work <= Interval =>
                /\ tk_prev_imm
                /\ tk_gap = Interval + tk_late)
        /\ (tk_n >= 3 /\ tk_prev_work > Interval /\ tk_imm => tk_work >= Interval)

\* the longest overrun, one immediate signal, then a signal one interval later
C10_Witness ==
    /\ tk_pc = "yielded"
    /\ tk_n >= 3
    /\ tk_prev_work = MaxWork
    /\ tk_prev_imm
    /\ tk_work = 0
    /\ ~tk_imm
    /\ tk_gap = Interval

\* C11 (as the code has it): when a request for an album art URL delivered
\* the image, the next request for the same URL issues no network fetch and
\* delivers the image from the cache; the cache never holds more than its
\* capacity and the URL just delivered is its most recent entry.
C11_CachedArt ==
    /\ Len(img_cache) <= MaxCache
    /\ dl_img => img_cache # <<>> /\ img_cache[Len(img_cache)] = dl_url
    /\ dl_url # 0 /\ dl_prev_url = dl_url /\ dl_prev_img => ~dl_fetched /\ dl_img

\* the same URL requested twice in a row, the first fetch having succeeded
C11_Witness ==
    dl_url # 0 /\ dl_prev_url = dl_url /\ dl_prev_img /\ ~dl_fetched /\ dl_img

\* C11 as stated: the second of two requests for the same URL issues no
\* network fetch, whatever became of the first.
C11_Original == dl_url # 0 /\ dl_prev_url = dl_url => ~dl_fetched

\* C12: a failed album art download is absorbed by from_api_response: the
\* snapshot is built with no image and nothing is raised, run() goes on to
\* build_scene with the same Screen, the scene built has no image node, and
\* update() is the next call.
C12_ArtFailureAbsorbed ==
    now_playing_state.well_formed /\ now_playing_state.download = "failed" =>
        /\ ~now_playing_state.raised
        /\ ~now_playing_state.album_art_img
        /\ cycle = <<"on", "snapshot">> => pc = "scene" /\ fresh
        /\ scene.built = "yes" => ~scene.has_img
        /\ scene.built = "yes" /\ cycle = <<"on", "snapshot", "scene">> =>
               pc = "update" /\ fresh
        /\ cycle = ActiveOrder /\ pc \in {"tick", "tick_sleep"} =>
               last_op.op = "update" /\ last_op.inst = screen

\* the download failed and the cycle painted a scene without image
C12_Witness ==
    /\ now_playing_state.well_formed
    /\ now_playing_state.download = "failed"
    /\ scene.built = "yes"
    /\ cycle = ActiveOrder
    /\ last_op.op = "update"
    /\ ~last_op.raised
    /\ pc = "tick"

RecoveryPcs == {"except", "backoff", "while", "screen_init", "ticker_start",
                "check", "query", "cleanup", "done", "raised"}

\* C13: a response lacking a field makes from_api_response raise: no scene is
\* built and update() is not called in that cycle, run() is in its exception
\* path, and a next query is reached only after the backoff and with a Screen
\* constructed after it.
C13_MalformedPropagates ==
    ~now_playing_state.well_formed =>
        /\ now_playing_state.raised
        /\ scene = NoScene
        /\ cycle = <<"on", "snapshot">>
        /\ last_op.op \in {"on", "init", "off"}
        /\ pc \in RecoveryPcs
        /\ pc \in {"except", "backoff"} => ~fresh
        /\ pc \in {"screen_init", "ticker_start", "check", "query"} =>
               since_query >= Backoff
        /\ pc \in {"ticker_start", "check", "query"} =>
               fresh /\ last_op.op = "init" /\ ~last_op.raised /\ last_op.inst = screen

\* a malformed response was met and run() is back at the query with a new Screen
C13_Witness ==
    /\ ~now_playing_state.well_formed
    /\ now_playing_state.download = "ok"
    /\ pc = "query"
    /\ nscreens = 2
    /\ screen = 2

\* C15 (as the code has it): while run() keeps going, a Screen that was in use
\* when an exception was caught gets no further on(), off() or update(): these
\* are only called on a Screen with no exception since its construction.  The
\* one exception is the off() of the final clean-up, which goes to the Screen
\* last bound, whether or not an exception was caught since.
C15_StaleInstance ==
    /\ stale_op \in {"none", "off"}
    /\ stale_op = "off" => pc \in {"done", "raised"} /\ ~running
    /\ pc \in {"idle_off", "on", "snapshot", "scene", "update"} => fresh

\* the clean-up turned off a Screen that had been in use when an exception
\* was caught
C15_Witness ==
    /\ stale_op = "off"
    /\ pc = "done"
    /\ last_op.op = "off"
    /\ last_op.was_on
    /\ ~last_op.raised

\* C15 as stated: no on(), off() or update() ever reaches a Screen that was in
\* use when an exception was caught.
C15_Original == stale_op = "none"

\* C18: when an exception is caught with the flag already cleared, run() does
\* not sleep and constructs no Screen: from the handler it goes to the
\* `while running` test, from there to the clean-up, and from there out.
C18_NoRetryAfterStop ==
    [][/\ pc = "except" /\ ~running =>
             /\ pc' \in {"except", "while"}
             /\ nscreens' = nscreens
             /\ since_query' = since_query
       /\ pc = "while" /\ ~running =>
             /\ pc' \in {"while", "cleanup"}
             /\ nscreens' = nscreens
             /\ since_query' = since_query
       /\ pc = "cleanup" =>
             /\ pc' \in {"cleanup", "done", "raised"}
             /\ nscreens' = nscreens]_vars

\* the flag was cleared during the work of a cycle, a later step of that cycle
\* raised, and run() is at its clean-up
C18_Witness ==
    /\ stopped_in = "cycle"
    /\ ~fresh
    /\ pc = "cleanup"
    /\ since_query < Backoff

\* C16 (as the code has it): the flag is tested by `while running` and right
\* after each ticker signal, not before the ticker waits.  Once a cycle's
\* work is over the ticker is resumed and runs to its next signal, sleeping
\* if it has to, whatever the flag; after the signal a cleared flag leaves
\* the for loop at once, and no query is started with the flag cleared.
C16_FlagCheckedAfterWait ==
    [][/\ ~running /\ pc = "check" => pc' \in {"check", "while"}
       /\ ~running /\ pc # "query" => pc' # "query"
       /\ pc \in {"update", "idle_sleep"} => pc' \in {pc, "tick", "except"}
       /\ pc = "tick" => pc' \in {"tick", "tick_sleep", "check"}
       /\ pc = "tick_sleep" => pc' \in {"tick_sleep", "check"}]_vars

\* the flag was cleared during the work of a cycle and the ticker is sleeping
C16_Witness == stopped_in = "cycle" /\ ~running /\ pc = "tick_sleep" /\ sleep_for > 0

\* C16 as stated: when the flag is cleared during the work of a cycle, the
\* loop exits without starting the next ticker wait.
C16_Original == stopped_in = "cycle" => pc # "tick_sleep"

\* C19 as stated: for each Screen the power commands alternate, screen_off
\* first, and is_on is false exactly when the last one was screen_off.
C19_PowerAlternates ==
    /\ power_ok
    /\ \A i \in 1..nscreens : ~is_on[i] <=> last_power[i] = "screen_off"

\* C20: the ticker signal after an idle pause fires without sleeping, so the
\* next query follows the previous one by the pause (and what off() and a
\* late wake-up add), the ticker never sleeps after an idle cycle, and the
\* signal that fired at once sets the next one a full interval later.
C20_IdleCadence ==
    /\ pc = "tick" /\ cycle = <<"off">> => next_tick < 0
    /\ pc = "tick_sleep" => cycle = ActiveOrder /\ sleep_for <= Interval
    /\ pc \in {"check", "query"} /\ cycle = <<"off">> /\ last_op.op = "off" =>
           /\ since_query >= IdleSleep
           /\ since_query <= IdleSleep + MaxProc + MaxLate
    /\ pc = "check" /\ cycle = <<"off">> /\ last_op.op = "off" => next_tick = Interval

\* back at the query exactly one idle pause after a query that returned None
C20_Witness ==
    /\ pc = "query"
    /\ current_playback = "None"
    /\ cycle = <<"off">>
    /\ last_op.op = "off"
    /\ since_query = IdleSleep
    /\ next_tick = Interval

\* C14 as stated: build_scene completes for every snapshot, one whose
\* duration is 0 included.
C14_NoDivByZero == Built => ~sc_scene.raised

\* the number a text of digits stands for
RECURSIVE Val(_)
Val(t) ==
    IF t = <<>> THEN 0
    ELSE 10 * Val(SubSeq(t, 1, Len(t) - 1))
         + (CHOOSE d \in 0..9 : Digits[d + 1] = t[Len(t)])

\* t reads minutes:seconds for sec seconds: digits, a colon, two digits; the
\* minutes sec div 60 written without leading zero, the seconds sec mod 60
Formats(t, sec) ==
    /\ Len(t) >= 4
    /\ t[Len(t) - 2] = ":"
    /\ \A i \in 1..Len(t) : i # Len(t) - 2 => \E d \in 1..10 : Digits[d] = t[i]
    /\ Len(t) > 4 => t[1] # "0"
    /\ Val(SubSeq(t, 1, Len(t) - 3)) = sec \div 60
    /\ Val(SubSeq(t, Len(t) - 1, Len(t))) = sec % 60

\* C17: the times of a scene read minutes:seconds, minutes = s div 60 without
\* padding and seconds = s mod 60 on two digits, s being the milliseconds
\* div 1000: 0 gives 0:00, 59 gives 0:59, 60 gives 1:00 and 3661 gives 61:01.
C17_TimeFormat ==
    Built /\ ~sc_scene.raised =>
        LET s == sc_state.progress_ms \div 1000 IN
        /\ Formats(sc_scene.elapsed, s)
        /\ Formats(sc_scene.total, sc_state.duration_ms \div 1000)
        /\ s = 0 => sc_scene.elapsed = <<"0", ":", "0", "0">>
        /\ s = 59 => sc_scene.elapsed = <<"0", ":", "5", "9">>
        /\ s = 60 => sc_scene.elapsed = <<"1", ":", "0", "0">>
        /\ s = 3661 => sc_scene.elapsed = <<"6", "1", ":", "0", "1">>

\* 3661.999 s into a track: 61:01
C17_Witness ==
    /\ sc_pc = "built"
    /\ sc_state.progress_ms = 3661999
    /\ sc_scene.elapsed = <<"6", "1", ":", "0", "1">>
    /\ sc_scene.total = <<"0", ":", "5", "9">>

====
